---- MODULE Spec2Model ----
(***************************************************************************)
(* Model of wireguard-uapi's Socket (src/socket/socket.rs): one session    *)
(* socket on generic netlink, the get_device dump loop and the set_device  *)
(* send/ack loop, the route-netlink calls on their own sockets, and the    *)
(* kernel end of the sockets.                                              *)
(***************************************************************************)
EXTENDS Integers, Sequences, FiniteSets, TLC

(* ---------------------------- bounds ---------------------------------- *)
\* number of public calls made on one Socket
MaxCalls == 2
\* longest response stream the kernel produces for one dump request
MaxStream == 3
\* largest number of peers in a set::Device
MaxPeers == 3

(* ------------------------- program constants --------------------------- *)
\* libc::IFNAMSIZ
IFNAMSIZ == 16
\* peers that fit one planned set message
PeersPerMessage == 1

(* ------------------------------ data ----------------------------------- *)
Peer(pk, ips) == [pk |-> pk, ips |-> ips]

NoDevice == [some |-> FALSE, name |-> "", peers |-> <<>>]

SomeDevice(name, peers) == [some |-> TRUE, name |-> name, peers |-> peers]

\* items the response iterator can meet on the socket
Payload(ok, name, peers) == [kind |-> "Payload", ok |-> ok, name |-> name, peers |-> peers]

Marker(kind) == [kind |-> kind, ok |-> TRUE, name |-> "", peers |-> <<>>]

\* payload 1 of the coalescing example: peer A with two allowed-IPs
PA2 == Payload(TRUE, "wg0", <<Peer("A", <<1, 2>>)>>)

\* payload 2: continuation of A with one more allowed-IP, then new peer B
PA1B1 == Payload(TRUE, "wg0", <<Peer("A", <<3>>), Peer("B", <<4>>)>>)

\* a payload whose attributes do not decode
PBad == Payload(FALSE, "", <<>>)

DoneMarker == Marker("Done")

ErrorMarker == Marker("Error")

\* a message the transport cannot deserialize: iter.next() gives Some(Err(_))
ErrItem == Marker("ErrItem")

\* the transport reports the end of the stream: iter.next() gives None
EndItem == Marker("End")

AckItem == Marker("Ack")

NackItem == Marker("Nack")

Payloads == {PA2, PA1B1, PBad}

Terminators == {DoneMarker, ErrorMarker, EndItem}

\* a response stream to one dump request is 1..MaxStream messages: payloads and transport
\* errors, closed by a terminator; a set message is answered by one acknowledgment.
\* A queued message is a slot (sequence number, class); what it holds is drawn when it is read
StreamLens == 1..MaxStream

Slot(s, cls) == [seq |-> s, cls |-> cls]

ItemsOf(cls) ==
    CASE cls = "mid" -> Payloads \cup {ErrItem}
      [] cls = "term" -> Terminators
      [] cls = "ack" -> {AckItem}
      [] OTHER -> {NackItem}

Items == Payloads \cup Terminators \cup {ErrItem, AckItem, NackItem}

NameLens == {0, 1, IFNAMSIZ - 1, IFNAMSIZ, IFNAMSIZ + 1}

Interfaces == [kind : {"Name"}, len : NameLens, index : {0}] \cup [kind : {"Index"}, len : {0}, index : {0, 1}]

NoInterface == [kind |-> "None", len |-> 0, index |-> 0]

SetDevices == [npeers : 0..MaxPeers, plannable : BOOLEAN]

(* ----------------------------- results --------------------------------- *)
NoResult == [kind |-> "None", err |-> "", device |-> NoDevice]

Ok(device) == [kind |-> "Ok", err |-> "", device |-> device]

Err(e) == [kind |-> "Err", err |-> e, device |-> NoDevice]

(* --------------------------- pure functions ---------------------------- *)
\* DeviceInterface::Name length filter
ValidNameLenLoose(len) == 0 < len /\ len <= IFNAMSIZ

ValidNameLen(len) == 0 < len /\ len < IFNAMSIZ

\* parse::parse_device: all top-level attributes and the peers of the first payload
parse_device(handle) ==
    IF handle.ok THEN Ok(SomeDevice(handle.name, handle.peers)) ELSE Err("ParseDeviceError")

\* parse::extend_device: only the peer list; a first peer with the key of the snapshot's last
\* peer continues that peer, every other peer is appended
extend_device(device, handle) ==
    IF ~handle.ok THEN Err("ParseDeviceError")
    ELSE IF handle.peers = <<>> THEN Ok(device)
    ELSE LET first == Head(handle.peers)
             n == Len(device.peers)
         IN IF n > 0 /\ device.peers[n].pk = first.pk
            THEN Ok([device EXCEPT !.peers =
                        [@ EXCEPT ![n] = Peer(first.pk, @.ips \o first.ips)] \o Tail(handle.peers)])
            ELSE Ok([device EXCEPT !.peers = @ \o handle.peers])

\* the match on the running snapshot in the dump loop
CoalesceReplace(device, handle) == parse_device(handle)

CoalesceFirstOnly(device, handle) ==
    IF device.some THEN (IF handle.ok THEN Ok(device) ELSE Err("ParseDeviceError"))
    ELSE parse_device(handle)

Coalesce(device, handle) ==
    IF device.some THEN extend_device(device, handle) ELSE parse_device(handle)

\* device.ok_or(GetDeviceError::AccessError)
FinishGetDefault(device) == Ok(device)

FinishGet(device) == IF device.some THEN Ok(device) ELSE Err("AccessError")

\* set::create_set_device_messages: the ordered request messages of one update; the first
\* carries the device attributes, peers are packed PeersPerMessage to a message
PlanLen(npeers) ==
    IF npeers = 0 THEN 1 ELSE (npeers + PeersPerMessage - 1) \div PeersPerMessage

create_set_device_messages(dev) ==
    IF dev.plannable
    THEN [ok |-> TRUE, msgs |-> [i \in 1..PlanLen(dev.npeers) |-> i]]
    ELSE [ok |-> FALSE, msgs |-> <<>>]

\* NlMessageIter::next on a socket that tracks sequence numbers
IterNext(seq, msg) ==
    IF msg.item.kind = "End" THEN "None"
    ELSE IF msg.item.kind = "ErrItem" \/ msg.seq # seq THEN "SomeErr"
    ELSE "SomeOk"

\* NlSocket::recv_ack on a socket that tracks sequence numbers
RecvAck(seq, msg) ==
    IF msg.item.kind # "Ack" THEN "NoAck"
    ELSE IF msg.seq # seq THEN "BadSeq"
    ELSE "Ok"

\* one turn of the dump loop: what iter.next() gave and what the loop does with it
GetStepErrorBreaks(dev, r, item) ==
    IF r # "SomeOk" THEN [ret |-> TRUE, result |-> FinishGet(dev), device |-> dev]
    ELSE IF item.kind \in {"Error", "Ack", "Nack", "Done"}
    THEN [ret |-> TRUE, result |-> FinishGet(dev), device |-> dev]
    ELSE LET c == Coalesce(dev, item)
         IN IF c.kind = "Err" THEN [ret |-> TRUE, result |-> c, device |-> dev]
            ELSE [ret |-> FALSE, result |-> NoResult, device |-> c.device]

GetStepDoneContinues(dev, r, item) ==
    IF r # "SomeOk" THEN [ret |-> TRUE, result |-> FinishGet(dev), device |-> dev]
    ELSE IF item.kind \in {"Error", "Ack", "Nack"}
    THEN [ret |-> TRUE, result |-> Err("AccessError"), device |-> dev]
    ELSE IF item.kind = "Done"
    THEN [ret |-> FALSE, result |-> NoResult, device |-> dev]
    ELSE LET c == Coalesce(dev, item)
         IN IF c.kind = "Err" THEN [ret |-> TRUE, result |-> c, device |-> dev]
            ELSE [ret |-> FALSE, result |-> NoResult, device |-> c.device]

GetStep(dev, r, item) ==
    IF r # "SomeOk" THEN [ret |-> TRUE, result |-> FinishGet(dev), device |-> dev]
    ELSE IF item.kind \in {"Error", "Ack", "Nack"}
    THEN [ret |-> TRUE, result |-> Err("AccessError"), device |-> dev]
    ELSE IF item.kind = "Done"
    THEN [ret |-> TRUE, result |-> FinishGet(dev), device |-> dev]
    ELSE LET c == Coalesce(dev, item)
         IN IF c.kind = "Err" THEN [ret |-> TRUE, result |-> c, device |-> dev]
            ELSE [ret |-> FALSE, result |-> NoResult, device |-> c.device]

\* one turn of the set loop after recv_ack returned r for message idx of n
SetAckStepIgnore(r, i, n) == IF i = n THEN "ok" ELSE "next"

SetAckStepOkEarly(r, i, n) == IF r # "Ok" THEN "err" ELSE "ok"

SetAckStep(r, i, n) ==
    IF r # "Ok" THEN "err" ELSE IF i = n THEN "ok" ELSE "next"

\* the parser the dump loop hands a response to: none for a marker or a failed read
ParserCalls(dev, r, item) ==
    IF r # "SomeOk" \/ item.kind \in {"Error", "Ack", "Nack", "Done"} THEN <<>>
    ELSE <<[fn |-> IF dev.some THEN "extend_device" ELSE "parse_device", item |-> item]>>

\* family ids the kernel can resolve WG_GENL_NAME to
FamilyIds == {1, 2}

\* Socket::connect: how far it gets and what it returns; fid = 0 when resolution fails
ConnectAlwaysOk(resolverOk, fid, newOk, bindOk) ==
    [sock |-> "bound", family_id |-> fid, result |-> Ok(NoDevice)]

ConnectOutcome(resolverOk, fid, newOk, bindOk) ==
    IF ~resolverOk THEN [sock |-> "none", family_id |-> 0, result |-> Err("ConnectError")]
    ELSE IF fid = 0 THEN [sock |-> "none", family_id |-> 0, result |-> Err("ResolveFamilyError")]
    ELSE IF ~newOk THEN [sock |-> "none", family_id |-> 0, result |-> Err("ConnectError")]
    ELSE IF ~bindOk THEN [sock |-> "created", family_id |-> 0, result |-> Err("ConnectError")]
    ELSE [sock |-> "bound", family_id |-> fid, result |-> Ok(NoDevice)]

\* a route-netlink link message carrying one interface-name attribute; ok: the name is UTF-8
Link(ok, name) == [kind |-> "Link", ok |-> ok, name |-> name, peers |-> <<>>]

LWg0 == Link(TRUE, "wg0")

LEth0 == Link(TRUE, "eth0")

LBadUtf8 == Link(FALSE, "")

Links == {LWg0, LEth0, LBadUtf8}

RtItemsOf(cls) ==
    CASE cls = "mid" -> Links \cup {ErrItem}
      [] cls = "term" -> Terminators
      [] cls = "ack" -> {AckItem}
      [] OTHER -> {NackItem}

RtItems == Links \cup Terminators \cup {ErrItem, AckItem, NackItem}

Panic == [kind |-> "Panic", err |-> "err", device |-> NoDevice]

\* the vector list_device_names returns after seeing the names `seen`
ListNames(seen) == <<>>

\* one turn of the loop of list_device_names
ListStep(r, item) ==
    IF r # "SomeOk" THEN [ret |-> TRUE, result |-> Ok(NoDevice)]
    ELSE IF item.kind \in {"Error", "Ack", "Nack"} THEN [ret |-> TRUE, result |-> Panic]
    ELSE IF item.kind = "Done" THEN [ret |-> TRUE, result |-> Ok(NoDevice)]
    ELSE IF ~item.ok THEN [ret |-> TRUE, result |-> Err("FromUtf8Error")]
    ELSE [ret |-> FALSE, result |-> NoResult]

\* add_device / del_device after recv_ack returned r
LinkAckStepIgnore(r) == Ok(NoDevice)

LinkAckStep(r) == IF r = "Ok" THEN Ok(NoDevice) ELSE Err("LinkDeviceError")

(* ------------------------------ state ---------------------------------- *)
VARIABLES
    pc,         \* where the caller is: "start", "failed", "idle", "get_recv", "set_send",
                \* "set_recv", "list_recv", "link_recv", "panicked"
    family_id,  \* Socket::family_id, 0 while unresolved
    sock,       \* Socket::sock: "none", "created", "bound"
    seq,        \* the session socket's sequence number (track_seq)
    toKernel,   \* messages sent on the session socket, not yet handled by the kernel
    rx,         \* message slots waiting on the session socket, oldest first
    device,     \* get_device's running snapshot
    plan,       \* set_device's planned messages
    idx,        \* set_device's position in the plan
    result,     \* what the last call returned
    applied,    \* set messages the kernel has applied, in order
    calls,      \* number of calls made so far
    op,         \* the call in progress or the last call: "none", "connect", "get", "set",
                \* "list", "add", "del"
    iface,      \* the interface of the last get_device
    readLog,    \* what the call has read from the socket, in order
    sentLog,    \* messages the call has handed to send_nl (0 for the get request), and whether the send succeeded
    ackLog,     \* set messages whose acknowledgment the call has received
    ackFailLog, \* (error value, failing message) of every failed acknowledgment so far
    parseLog,   \* the parser calls of the get_device, in order
    rtSock,     \* the route-netlink socket of the call in progress: "closed", "open"
    rtSeq,      \* its sequence number
    rtToKernel, \* messages sent on it, not yet handled by the kernel
    rtRx,       \* message slots waiting on it
    names       \* the Vec<String> list_device_names returned

connVars == <<family_id, sock>>

sessVars == <<seq, toKernel, rx>>

routeVars == <<rtSock, rtSeq, rtToKernel, rtRx, names>>

vars == <<pc, seq, toKernel, rx, device, plan, idx, result, applied, calls, op, iface,
          readLog, sentLog, ackLog, ackFailLog, parseLog, family_id, sock, rtSock, rtSeq,
          rtToKernel, rtRx, names>>

Init ==
    /\ pc = "start"
    /\ family_id = 0
    /\ sock = "none"
    /\ parseLog = <<>>
    /\ rtSock = "closed"
    /\ rtSeq = 0
    /\ rtToKernel = <<>>
    /\ rtRx = <<>>
    /\ names = <<>>
    /\ seq = 0
    /\ toKernel = <<>>
    /\ rx = <<>>
    /\ device = NoDevice
    /\ plan = <<>>
    /\ idx = 0
    /\ result = NoResult
    /\ applied = <<>>
    /\ calls = 0
    /\ op = "none"
    /\ iface = NoInterface
    /\ readLog = <<>>
    /\ sentLog = <<>>
    /\ ackLog = <<>>
    /\ ackFailLog = {}

(* ----------------------------- connect --------------------------------- *)
\* Socket::connect: resolve the family on a throwaway socket, then create and bind the session socket
Connect(resolverOk, fid, newOk, bindOk) ==
    /\ pc = "start"
    /\ LET c == ConnectOutcome(resolverOk, fid, newOk, bindOk)
       IN /\ sock' = c.sock
          /\ family_id' = c.family_id
          /\ result' = c.result
          /\ pc' = IF c.result.kind = "Ok" THEN "idle" ELSE "failed"
    /\ op' = "connect"
    /\ UNCHANGED <<seq, toKernel, rx, device, plan, idx, applied, calls, iface, readLog, sentLog,
                   ackLog, ackFailLog, parseLog, routeVars>>

(* --------------------------- get_device -------------------------------- *)
\* validation, message construction and send_nl; the message is serialized into a growable
\* buffer, so its construction is total
GetDevice(interface, sendOk) ==
    /\ pc = "idle"
    /\ calls < MaxCalls
    /\ calls' = calls + 1
    /\ op' = "get"
    /\ iface' = interface
    /\ readLog' = <<>>
    /\ ackLog' = <<>>
    /\ device' = NoDevice
    /\ parseLog' = <<>>
    /\ plan' = <<>>
    /\ idx' = 0
    /\ UNCHANGED <<rx, applied, ackFailLog, connVars, routeVars>>
    /\ IF interface.kind = "Name" /\ ~ValidNameLen(interface.len)
       THEN /\ result' = Err("InvalidInterfaceName")
            /\ sentLog' = <<>>
            /\ UNCHANGED <<pc, seq, toKernel>>
       ELSE /\ seq' = seq + 1
            /\ sentLog' = <<[idx |-> 0, ok |-> sendOk]>>
            /\ IF sendOk
               THEN /\ toKernel' = Append(toKernel, [type |-> "get", seq |-> seq + 1, call |-> calls + 1, idx |-> 0])
                    /\ pc' = "get_recv"
                    /\ result' = NoResult
               ELSE /\ result' = Err("NlError")
                    /\ UNCHANGED <<pc, toKernel>>

\* one iteration of the while-let loop; leaving the loop returns
GetNext(item) ==
    /\ pc = "get_recv"
    /\ rx # <<>>
    /\ item \in ItemsOf(Head(rx).cls)
    /\ LET msg == [seq |-> Head(rx).seq, item |-> item]
           r == IterNext(seq, msg)
           s == GetStep(device, r, msg.item)
       IN /\ rx' = Tail(rx)
          /\ readLog' = Append(readLog, [res |-> r, item |-> msg.item])
          /\ parseLog' = parseLog \o ParserCalls(device, r, msg.item)
          /\ device' = s.device
          /\ result' = s.result
          /\ pc' = IF s.ret THEN "idle" ELSE "get_recv"
    /\ UNCHANGED <<seq, toKernel, plan, idx, applied, calls, op, iface, sentLog, ackLog, ackFailLog,
                   connVars, routeVars>>

(* --------------------------- set_device -------------------------------- *)
\* a set_device that hands the first message to the socket before it learns that planning failed
SetDeviceSendsFirst(dev) ==
    /\ pc = "idle"
    /\ calls < MaxCalls
    /\ calls' = calls + 1
    /\ op' = "set"
    /\ readLog' = <<>>
    /\ ackLog' = <<>>
    /\ LET p == create_set_device_messages(dev)
       IN IF ~p.ok
          THEN /\ result' = Err("PlanError")
               /\ plan' = <<>>
               /\ idx' = 0
               /\ seq' = seq + 1
               /\ sentLog' = <<[idx |-> 1, ok |-> TRUE]>>
               /\ toKernel' = Append(toKernel, [type |-> "set", seq |-> seq + 1, call |-> calls + 1, idx |-> 1])
               /\ UNCHANGED pc
          ELSE /\ plan' = p.msgs
               /\ idx' = 1
               /\ pc' = "set_send"
               /\ result' = NoResult
               /\ sentLog' = <<>>
               /\ UNCHANGED <<seq, toKernel>>
    /\ device' = NoDevice
    /\ iface' = NoInterface
    /\ parseLog' = <<>>
    /\ UNCHANGED <<rx, applied, ackFailLog, connVars, routeVars>>

\* create_set_device_messages(device, family_id)?
SetDevice(dev) ==
    /\ pc = "idle"
    /\ calls < MaxCalls
    /\ calls' = calls + 1
    /\ op' = "set"
    /\ readLog' = <<>>
    /\ sentLog' = <<>>
    /\ ackLog' = <<>>
    /\ LET p == create_set_device_messages(dev)
       IN IF ~p.ok
          THEN /\ result' = Err("PlanError")
               /\ plan' = <<>>
               /\ idx' = 0
               /\ UNCHANGED pc
          ELSE IF p.msgs = <<>>
          THEN /\ result' = Ok(NoDevice)
               /\ plan' = p.msgs
               /\ idx' = 0
               /\ UNCHANGED pc
          ELSE /\ plan' = p.msgs
               /\ idx' = 1
               /\ pc' = "set_send"
               /\ result' = NoResult
    /\ device' = NoDevice
    /\ iface' = NoInterface
    /\ parseLog' = <<>>
    /\ UNCHANGED <<seq, toKernel, rx, applied, ackFailLog, connVars, routeVars>>

\* a send that goes on to the next message without waiting for the acknowledgment
SetSendNoWait(sendOk) ==
    /\ pc = "set_send"
    /\ seq' = seq + 1
    /\ sentLog' = Append(sentLog, [idx |-> plan[idx], ok |-> sendOk])
    /\ IF sendOk
       THEN /\ toKernel' = Append(toKernel, [type |-> "set", seq |-> seq + 1, call |-> calls, idx |-> plan[idx]])
            /\ IF idx < Len(plan)
               THEN /\ idx' = idx + 1
                    /\ UNCHANGED <<pc, result>>
               ELSE /\ pc' = "set_recv"
                    /\ UNCHANGED <<idx, result>>
       ELSE /\ result' = Err("NlError")
            /\ pc' = "idle"
            /\ UNCHANGED <<toKernel, idx>>
    /\ UNCHANGED <<rx, device, plan, applied, calls, op, iface, readLog, ackLog, ackFailLog,
                   parseLog, connVars, routeVars>>

\* a send that tries the same message again when send_nl fails
SetSendRetry(sendOk) ==
    /\ pc = "set_send"
    /\ seq' = seq + 1
    /\ sentLog' = Append(sentLog, [idx |-> plan[idx], ok |-> sendOk])
    /\ IF sendOk
       THEN /\ toKernel' = Append(toKernel, [type |-> "set", seq |-> seq + 1, call |-> calls, idx |-> plan[idx]])
            /\ pc' = "set_recv"
            /\ UNCHANGED result
       ELSE IF Len(sentLog) < Len(plan)
       THEN UNCHANGED <<pc, result, toKernel>>
       ELSE /\ result' = Err("NlError")
            /\ pc' = "idle"
            /\ UNCHANGED toKernel
    /\ UNCHANGED <<rx, device, plan, idx, applied, calls, op, iface, readLog, ackLog, ackFailLog,
                   parseLog, connVars, routeVars>>

\* self.sock.send_nl(nl_message)?
SetSend(sendOk) ==
    /\ pc = "set_send"
    /\ seq' = seq + 1
    /\ sentLog' = Append(sentLog, [idx |-> plan[idx], ok |-> sendOk])
    /\ IF sendOk
       THEN /\ toKernel' = Append(toKernel, [type |-> "set", seq |-> seq + 1, call |-> calls, idx |-> plan[idx]])
            /\ pc' = "set_recv"
            /\ UNCHANGED result
       ELSE /\ result' = Err("NlError")
            /\ pc' = "idle"
            /\ UNCHANGED toKernel
    /\ UNCHANGED <<rx, device, plan, idx, applied, calls, op, iface, readLog, ackLog, ackFailLog,
                   parseLog, connVars, routeVars>>

\* self.sock.recv_ack()?, then the next message or Ok(())
SetRecvAck(item) ==
    /\ pc = "set_recv"
    /\ rx # <<>>
    /\ item \in ItemsOf(Head(rx).cls)
    /\ LET msg == [seq |-> Head(rx).seq, item |-> item]
           r == RecvAck(seq, msg)
           s == SetAckStep(r, idx, Len(plan))
       IN /\ rx' = Tail(rx)
          /\ readLog' = Append(readLog, [res |-> r, item |-> msg.item])
          /\ ackLog' = IF r = "Ok" THEN Append(ackLog, plan[idx]) ELSE ackLog
          /\ CASE s = "err" ->
                    /\ result' = Err(r)
                    /\ ackFailLog' = ackFailLog \cup {[err |-> Err(r), idx |-> idx]}
                    /\ pc' = "idle"
                    /\ UNCHANGED idx
               [] s = "ok" ->
                    /\ result' = Ok(NoDevice)
                    /\ pc' = "idle"
                    /\ UNCHANGED <<idx, ackFailLog>>
               [] OTHER ->
                    /\ idx' = idx + 1
                    /\ pc' = "set_send"
                    /\ UNCHANGED <<result, ackFailLog>>
    /\ UNCHANGED <<seq, toKernel, device, plan, applied, calls, op, iface, sentLog, parseLog,
                   connVars, routeVars>>

(* ------------------------ list_device_names ---------------------------- *)
\* NlSocket::connect(NlFamily::Route, ..)? and send_nl(nlmsg)? on the new socket
ListDeviceNames(connectOk, sendOk) ==
    /\ pc = "idle"
    /\ calls < MaxCalls
    /\ calls' = calls + 1
    /\ op' = "list"
    /\ readLog' = <<>>
    /\ ackLog' = <<>>
    /\ names' = <<>>
    /\ rtRx' = <<>>
    /\ IF ~connectOk
       THEN /\ result' = Err("NlError")
            /\ sentLog' = <<>>
            /\ rtSock' = "closed"
            /\ rtSeq' = 0
            /\ rtToKernel' = <<>>
            /\ UNCHANGED pc
       ELSE /\ rtSeq' = 1
            /\ sentLog' = <<[idx |-> 0, ok |-> sendOk]>>
            /\ IF sendOk
               THEN /\ rtToKernel' = <<[type |-> "list", seq |-> 1]>>
                    /\ rtSock' = "open"
                    /\ pc' = "list_recv"
                    /\ result' = NoResult
               ELSE /\ result' = Err("NlError")
                    /\ rtSock' = "closed"
                    /\ rtToKernel' = <<>>
                    /\ UNCHANGED pc
    /\ device' = NoDevice
    /\ iface' = NoInterface
    /\ parseLog' = <<>>
    /\ plan' = <<>>
    /\ idx' = 0
    /\ UNCHANGED <<sessVars, connVars, applied, ackFailLog>>

\* one iteration of the while-let loop; leaving the loop returns Ok(vec![]) and drops the socket
ListNext(item) ==
    /\ pc = "list_recv"
    /\ rtRx # <<>>
    /\ item \in RtItemsOf(Head(rtRx).cls)
    /\ LET msg == [seq |-> Head(rtRx).seq, item |-> item]
           r == IterNext(rtSeq, msg)
           s == ListStep(r, item)
           seen == [i \in 1..Len(readLog) |-> readLog[i].item.name]
       IN /\ readLog' = Append(readLog, [res |-> r, item |-> item])
          /\ result' = s.result
          /\ IF s.ret
             THEN /\ pc' = IF s.result.kind = "Panic" THEN "panicked" ELSE "idle"
                  /\ names' = IF s.result.kind = "Ok" THEN ListNames(seen) ELSE <<>>
                  /\ rtSock' = "closed"
                  /\ rtRx' = <<>>
                  /\ rtSeq' = 0
             ELSE /\ rtRx' = Tail(rtRx)
                  /\ UNCHANGED <<pc, names, rtSock, rtSeq>>
    /\ UNCHANGED <<sessVars, connVars, device, plan, idx, applied, calls, op, iface, sentLog,
                   ackLog, ackFailLog, parseLog, rtToKernel>>

(* ---------------------- add_device / del_device ------------------------ *)
\* NlSocket::connect(..)?, link_message(ifname, operation)? and send_nl(..)? on the new socket
LinkDevice(kind, connectOk, buildOk, sendOk) ==
    /\ pc = "idle"
    /\ calls < MaxCalls
    /\ calls' = calls + 1
    /\ op' = kind
    /\ readLog' = <<>>
    /\ ackLog' = <<>>
    /\ rtRx' = <<>>
    /\ IF ~connectOk \/ ~buildOk
       THEN /\ result' = Err("LinkDeviceError")
            /\ sentLog' = <<>>
            /\ rtSock' = "closed"
            /\ rtSeq' = 0
            /\ rtToKernel' = <<>>
            /\ UNCHANGED pc
       ELSE /\ rtSeq' = 1
            /\ sentLog' = <<[idx |-> 0, ok |-> sendOk]>>
            /\ IF sendOk
               THEN /\ rtToKernel' = <<[type |-> "link", seq |-> 1]>>
                    /\ rtSock' = "open"
                    /\ pc' = "link_recv"
                    /\ result' = NoResult
               ELSE /\ result' = Err("LinkDeviceError")
                    /\ rtSock' = "closed"
                    /\ rtToKernel' = <<>>
                    /\ UNCHANGED pc
    /\ device' = NoDevice
    /\ iface' = NoInterface
    /\ parseLog' = <<>>
    /\ plan' = <<>>
    /\ idx' = 0
    /\ names' = <<>>
    /\ UNCHANGED <<sessVars, connVars, applied, ackFailLog>>

\* an add_device that sends its link message on the session socket
AddDeviceOnSession(connectOk, buildOk, sendOk) ==
    /\ pc = "idle"
    /\ calls < MaxCalls
    /\ calls' = calls + 1
    /\ op' = "add"
    /\ readLog' = <<>>
    /\ ackLog' = <<>>
    /\ seq' = seq + 1
    /\ sentLog' = <<[idx |-> 0, ok |-> FALSE]>>
    /\ result' = Err("LinkDeviceError")
    /\ device' = NoDevice
    /\ iface' = NoInterface
    /\ parseLog' = <<>>
    /\ plan' = <<>>
    /\ idx' = 0
    /\ UNCHANGED <<pc, toKernel, rx, connVars, routeVars, applied, ackFailLog>>

AddDevice(connectOk, buildOk, sendOk) == LinkDevice("add", connectOk, buildOk, sendOk)

DelDevice(connectOk, buildOk, sendOk) == LinkDevice("del", connectOk, buildOk, sendOk)

\* sock.recv_ack()?, then Ok(()); the socket is dropped
LinkRecvAck(item) ==
    /\ pc = "link_recv"
    /\ rtRx # <<>>
    /\ item \in RtItemsOf(Head(rtRx).cls)
    /\ LET msg == [seq |-> Head(rtRx).seq, item |-> item]
           r == RecvAck(rtSeq, msg)
       IN /\ readLog' = Append(readLog, [res |-> r, item |-> item])
          /\ result' = LinkAckStep(r)
    /\ pc' = "idle"
    /\ rtSock' = "closed"
    /\ rtRx' = <<>>
    /\ rtSeq' = 0
    /\ UNCHANGED <<sessVars, connVars, device, plan, idx, applied, calls, op, iface, sentLog,
                   ackLog, ackFailLog, parseLog, rtToKernel, names>>

(* ------------------------------ kernel --------------------------------- *)
\* the kernel answers a link dump request on the route socket with a response stream
KernelList(n) ==
    /\ rtToKernel # <<>>
    /\ Head(rtToKernel).type = "list"
    /\ rtRx' = rtRx \o [i \in 1..n |-> Slot(Head(rtToKernel).seq, IF i = n THEN "term" ELSE "mid")]
    /\ rtToKernel' = Tail(rtToKernel)
    /\ UNCHANGED <<pc, sessVars, connVars, device, plan, idx, result, applied, calls, op, iface,
                   readLog, sentLog, ackLog, ackFailLog, parseLog, rtSock, rtSeq, names>>

\* the kernel carries out or rejects a link request and acknowledges it
KernelLink(accept) ==
    /\ rtToKernel # <<>>
    /\ Head(rtToKernel).type = "link"
    /\ rtRx' = Append(rtRx, Slot(Head(rtToKernel).seq, IF accept THEN "ack" ELSE "nack"))
    /\ rtToKernel' = Tail(rtToKernel)
    /\ UNCHANGED <<pc, sessVars, connVars, device, plan, idx, result, applied, calls, op, iface,
                   readLog, sentLog, ackLog, ackFailLog, parseLog, rtSock, rtSeq, names>>

\* the kernel answers a dump request with a response stream carrying the request's sequence number
KernelGet(n) ==
    /\ toKernel # <<>>
    /\ Head(toKernel).type = "get"
    /\ rx' = rx \o [i \in 1..n |-> Slot(Head(toKernel).seq, IF i = n THEN "term" ELSE "mid")]
    /\ toKernel' = Tail(toKernel)
    /\ UNCHANGED <<pc, seq, device, plan, idx, result, applied, calls, op, iface, readLog,
                   sentLog, ackLog, ackFailLog, parseLog, connVars, routeVars>>

\* the kernel applies or rejects a set message and acknowledges it
KernelSet(accept) ==
    /\ toKernel # <<>>
    /\ Head(toKernel).type = "set"
    /\ LET m == Head(toKernel)
       IN IF accept
          THEN /\ applied' = Append(applied, [call |-> m.call, idx |-> m.idx])
               /\ rx' = Append(rx, Slot(m.seq, "ack"))
          ELSE /\ rx' = Append(rx, Slot(m.seq, "nack"))
               /\ UNCHANGED applied
    /\ toKernel' = Tail(toKernel)
    /\ UNCHANGED <<pc, seq, device, plan, idx, result, calls, op, iface, readLog, sentLog, ackLog,
                   ackFailLog, parseLog, connVars, routeVars>>

Next ==
    \/ \E resolverOk \in BOOLEAN, fid \in FamilyIds \cup {0}, newOk \in BOOLEAN, bindOk \in BOOLEAN :
          Connect(resolverOk, fid, newOk, bindOk)
    \/ \E interface \in Interfaces, sendOk \in BOOLEAN : GetDevice(interface, sendOk)
    \/ \E item \in Items : GetNext(item)
    \/ \E dev \in SetDevices : SetDevice(dev)
    \/ \E sendOk \in BOOLEAN : SetSend(sendOk)
    \/ \E item \in Items : SetRecvAck(item)
    \/ \E connectOk \in BOOLEAN, sendOk \in BOOLEAN : ListDeviceNames(connectOk, sendOk)
    \/ \E item \in RtItems : ListNext(item)
    \/ \E connectOk \in BOOLEAN, buildOk \in BOOLEAN, sendOk \in BOOLEAN :
          AddDevice(connectOk, buildOk, sendOk)
    \/ \E connectOk \in BOOLEAN, buildOk \in BOOLEAN, sendOk \in BOOLEAN :
          DelDevice(connectOk, buildOk, sendOk)
    \/ \E item \in RtItems : LinkRecvAck(item)
    \/ \E n \in StreamLens : KernelList(n)
    \/ \E accept \in BOOLEAN : KernelLink(accept)
    \/ \E n \in StreamLens : KernelGet(n)
    \/ \E accept \in BOOLEAN : KernelSet(accept)

Spec == Init /\ [][Next]_vars

\* the caller's thread runs, and the kernel answers every request on the session socket
FairSpec ==
    /\ Spec
    /\ WF_vars(\E item \in Items : GetNext(item))
    /\ WF_vars(\E sendOk \in BOOLEAN : SetSend(sendOk))
    /\ WF_vars(\E item \in Items : SetRecvAck(item))
    /\ WF_vars(\E n \in StreamLens : KernelGet(n))
    /\ WF_vars(\E accept \in BOOLEAN : KernelSet(accept))

TypeOK ==
    /\ pc \in {"start", "failed", "idle", "get_recv", "set_send", "set_recv", "list_recv",
               "link_recv", "panicked"}
    /\ seq \in Nat
    /\ calls \in 0..MaxCalls
    /\ op \in {"none", "connect", "get", "set", "list", "add", "del"}
    /\ result.kind \in {"None", "Ok", "Err", "Panic"}

(* ------------------------------ claims --------------------------------- *)
\* the last call was a get_device that has returned
GetReturned == op = "get" /\ pc = "idle"

\* the last call was a set_device that has returned
SetReturned == op = "set" /\ pc = "idle"

GoodPayloadRead(e) == e.res = "SomeOk" /\ e.item.kind = "Payload" /\ e.item.ok

MarkerRead(e, kind) == e.res = "SomeOk" /\ e.item.kind = kind

\* the call read well-formed payloads and then an Error marker
PayloadsThenError(log) ==
    /\ Len(log) >= 1
    /\ MarkerRead(log[Len(log)], "Error")
    /\ \A i \in 1..(Len(log) - 1) : GoodPayloadRead(log[i])

\* C1: a get_device that read zero or more well-formed payloads and then an Error marker
\* returns GetDeviceError::AccessError, whatever it had parsed
C1_ErrorMarkerIsAccessError ==
    (GetReturned /\ PayloadsThenError(readLog)) => result = Err("AccessError")

C1_Witness ==
    /\ GetReturned
    /\ PayloadsThenError(readLog)
    /\ Len(readLog) = 2
    /\ result = Err("AccessError")

\* C2: get_device returns Ok(Device) only when the last thing it read was a Done marker
C2_OkOnlyAfterDone ==
    (GetReturned /\ result.kind = "Ok") =>
        (readLog # <<>> /\ MarkerRead(readLog[Len(readLog)], "Done"))

BadNameLen(i) == i.kind = "Name" /\ (i.len = 0 \/ i.len >= IFNAMSIZ)

SetFailedAt(j) ==
    \/ (j <= Len(sentLog) /\ ~sentLog[j].ok)
    \/ (j <= Len(readLog) /\ readLog[j].res # "Ok")

\* C4: once message k of a set_device fails (send or acknowledgment), set_device has returned
\* an error and no message after k has been handed to the socket
C4_StopAtFirstFailure ==
    op = "set" =>
        \A j \in 1..Len(plan) :
            SetFailedAt(j) =>
                /\ pc = "idle"
                /\ result.kind = "Err"
                /\ Len(sentLog) = j
                /\ \A i \in 1..Len(toKernel) :
                       toKernel[i].call = calls => toKernel[i].idx <= j

C4_Witness ==
    /\ SetReturned
    /\ Len(plan) = 3
    /\ Len(readLog) = 2
    /\ readLog[2].res # "Ok"
    /\ Len(sentLog) = 2
    /\ result.kind = "Err"

\* C5: the error returned for a failed acknowledgment tells the failing message: two failures
\* with the same error value are failures of the same message index
C5_ErrorIdentifiesIndex ==
    \A a \in ackFailLog, b \in ackFailLog : a.err = b.err => a.idx = b.idx

\* C6: set_device sends the planned messages in order, each after the acknowledgment of the
\* one before: at most one message is sent and not yet acknowledged
C6_StrictlySequential ==
    op = "set" =>
        /\ \A i \in 1..Len(sentLog) : sentLog[i].idx = plan[i]
        /\ \A i \in 1..Len(ackLog) : ackLog[i] = plan[i]
        /\ Len(ackLog) <= Len(sentLog)
        /\ Len(sentLog) <= Len(ackLog) + 1
        /\ Cardinality({i \in 1..Len(toKernel) : toKernel[i].call = calls}) <= 1

C6_Witness ==
    /\ op = "set"
    /\ pc = "set_recv"
    /\ Len(sentLog) = 3
    /\ Len(ackLog) = 2

\* the messages of call c the kernel has applied, in the order it applied them
RECURSIVE AppliedOf(_, _)
AppliedOf(c, s) ==
    IF s = <<>> THEN <<>>
    ELSE IF Head(s).call = c THEN <<Head(s).idx>> \o AppliedOf(c, Tail(s))
    ELSE AppliedOf(c, Tail(s))

IsPrefixOfPlan(s) == \A i \in 1..Len(s) : s[i] = i

\* C7: what the kernel has applied of a set_device is a prefix 1..k of its plan, the
\* acknowledged messages are among it, only planned messages are sent, and the call returns
\* Ok only when all n messages were sent, applied and acknowledged
C7_PrefixApplied ==
    op = "set" =>
        /\ IsPrefixOfPlan(AppliedOf(calls, applied))
        /\ Len(ackLog) <= Len(AppliedOf(calls, applied))
        /\ \A i \in 1..Len(sentLog) : sentLog[i].idx = plan[i]
        /\ (pc = "idle" /\ result.kind = "Ok") =>
               /\ Len(AppliedOf(calls, applied)) = Len(plan)
               /\ Len(ackLog) = Len(plan)
               /\ Len(sentLog) = Len(plan)

C7_Witness ==
    /\ SetReturned
    /\ result.kind = "Err"
    /\ Len(plan) = 3
    /\ AppliedOf(calls, applied) = <<1, 2>>
    /\ Len(sentLog) = 3

\* the dump of the coalescing example was read: payload 1, payload 2, Done
ReadCoalescingDump ==
    /\ Len(readLog) = 3
    /\ readLog[1].res = "SomeOk" /\ readLog[1].item = PA2
    /\ readLog[2].res = "SomeOk" /\ readLog[2].item = PA1B1
    /\ MarkerRead(readLog[3], "Done")

EndedWithoutPayload ==
    /\ readLog # <<>>
    /\ \A i \in 1..Len(readLog) : readLog[i].item.kind # "Payload"
    /\ \/ MarkerRead(readLog[Len(readLog)], "Done")
       \/ readLog[Len(readLog)].res = "None"

\* C9: a get_device whose response stream ends (Done, or exhausted) before any payload
\* returns an error, never a Device
C9_NoPayloadFails ==
    (GetReturned /\ EndedWithoutPayload) => result.kind = "Err"

C9_Witness ==
    /\ GetReturned
    /\ readLog # <<>>
    /\ MarkerRead(readLog[1], "Done")
    /\ result = Err("AccessError")

\* C10: when a call has returned, nothing is left unread on the session socket
C10_NothingLeftUnread ==
    (pc = "idle" /\ op # "none") => rx = <<>>

\* the last call was a list_device_names that has returned
ListReturned == op = "list" /\ pc = "idle"

\* the call read link messages with well-formed names and then a Done marker
LinksThenDone(log) ==
    /\ Len(log) >= 1
    /\ MarkerRead(log[Len(log)], "Done")
    /\ \A i \in 1..(Len(log) - 1) :
           log[i].res = "SomeOk" /\ log[i].item.kind = "Link" /\ log[i].item.ok

\* C11: list_device_names returns the interface names of the dump, in arrival order
C11_NamesInArrivalOrder ==
    (ListReturned /\ LinksThenDone(readLog)) =>
        /\ result.kind = "Ok"
        /\ names = [i \in 1..(Len(readLog) - 1) |-> readLog[i].item.name]

\* C12: in get_device and list_device_names an Error marker makes the call return a typed
\* error: the call has returned, and what it returned is an error
C12_ErrorMarkerTypedError ==
    (op \in {"get", "list"} /\ readLog # <<>> /\ MarkerRead(readLog[Len(readLog)], "Error")) =>
        (pc = "idle" /\ result.kind = "Err")

\* C13: within one call no request message is handed to a socket twice: one request for
\* get_device, list_device_names, add_device and del_device, each planned message of
\* set_device at most once
C13_NoRetry ==
    op \in {"get", "set", "list", "add", "del"} =>
        /\ \A i \in 1..Len(sentLog), j \in 1..Len(sentLog) :
               i # j => sentLog[i].idx # sentLog[j].idx
        /\ op # "set" => Len(sentLog) <= 1
        /\ op = "set" => Len(sentLog) <= Len(plan)

C13_Witness ==
    /\ SetReturned
    /\ Len(plan) = 3
    /\ Len(sentLog) = 2
    /\ ~sentLog[2].ok
    /\ result = Err("NlError")

RouteOps == {"list", "add", "del"}

\* a step of the caller, not of the kernel
CallerStep == <<pc, calls, readLog, sentLog>>' # <<pc, calls, readLog, sentLog>>

\* C14: a step of list_device_names, add_device or del_device leaves the session socket, its
\* pending messages, its sequence number and the family id as they were, and the call starts
\* on a socket of its own with nothing queued
C14_RouteCallsLeaveSession ==
    [][(op' \in RouteOps /\ CallerStep) =>
           /\ UNCHANGED <<seq, toKernel, rx, family_id, sock>>
           /\ calls' # calls => (rtRx' = <<>> /\ rtSeq' \in {0, 1} /\ Len(rtToKernel') <= 1)]_vars

C14_Witness ==
    /\ op = "add"
    /\ pc = "idle"
    /\ result = Err("LinkDeviceError")
    /\ readLog # <<>>
    /\ rx # <<>>
    /\ seq > 0

\* C15: add_device and del_device send at most one message and read at most one; they return
\* Ok only after one successful send and one positive acknowledgment, and every failure is a
\* LinkDeviceError
C15_LinkSingleExchange ==
    op \in {"add", "del"} =>
        /\ Len(sentLog) <= 1
        /\ Len(readLog) <= 1
        /\ pc \in {"idle", "link_recv"}
        /\ pc = "link_recv" => (Len(sentLog) = 1 /\ sentLog[1].ok /\ readLog = <<>>)
        /\ pc = "idle" => result \in {Ok(NoDevice), Err("LinkDeviceError")}
        /\ (pc = "idle" /\ result.kind = "Ok") =>
               /\ Len(sentLog) = 1 /\ sentLog[1].ok
               /\ Len(readLog) = 1 /\ readLog[1].res = "Ok" /\ readLog[1].item = AckItem
        /\ (pc = "idle" /\ (sentLog = <<>> \/ ~sentLog[1].ok \/ readLog[1].item # AckItem)) =>
               result = Err("LinkDeviceError")

C15_Witness ==
    /\ op = "del"
    /\ pc = "idle"
    /\ Len(readLog) = 1
    /\ readLog[1].item = NackItem
    /\ result = Err("LinkDeviceError")

\* what connect has left behind
ConnectState ==
    /\ pc = "start" => (sock = "none" /\ family_id = 0)
    /\ pc = "failed" =>
           /\ result \in {Err("ConnectError"), Err("ResolveFamilyError")}
           /\ sock # "bound"
           /\ family_id = 0
           /\ result = Err("ResolveFamilyError") => sock = "none"
    /\ pc \notin {"start", "failed"} => (sock = "bound" /\ family_id \in FamilyIds)

\* C16: connect fails with a ConnectError and no Socket, without the session socket when the
\* family does not resolve; a Socket has a resolved family id and a bound socket, and its
\* family id never changes
C16_ConnectAllOrNothing ==
    /\ []ConnectState
    /\ [][pc # "start" => family_id' = family_id]_vars

C16_Witness ==
    /\ pc = "failed"
    /\ result = Err("ResolveFamilyError")
    /\ sock = "none"
    /\ family_id = 0

\* the snapshot parse_device and extend_device build from payloads ps, first to last
RECURSIVE ExtendAll(_, _)
ExtendAll(dev, ps) ==
    IF ps = <<>> THEN dev ELSE ExtendAll(extend_device(dev, Head(ps)).device, Tail(ps))

\* the call read well-formed payloads, at least one, and then a Done marker
PayloadsThenDone(log) ==
    /\ Len(log) >= 2
    /\ MarkerRead(log[Len(log)], "Done")
    /\ \A i \in 1..(Len(log) - 1) : GoodPayloadRead(log[i])

C18_CallsReturn ==
    /\ (pc \in {"get_recv", "set_send", "set_recv"}) ~> (pc = "idle")
    /\ [](op = "set" => (Len(sentLog) <= Len(plan) /\ Len(readLog) <= Len(sentLog)))

\* a get_device waiting for the kernel's answer
C18_Witness ==
    /\ pc = "get_recv"
    /\ rx = <<>>
    /\ toKernel # <<>>

\* C19: a set_device whose planning fails returns the error with nothing sent, nothing read
\* and nothing applied by the kernel
C19_PlanFailureSendsNothing ==
    (op = "set" /\ result = Err("PlanError")) =>
        /\ pc = "idle"
        /\ sentLog = <<>>
        /\ readLog = <<>>
        /\ AppliedOf(calls, applied) = <<>>
        /\ \A i \in 1..Len(toKernel) : toKernel[i].call # calls

C19_Witness ==
    /\ SetReturned
    /\ result = Err("PlanError")
    /\ sentLog = <<>>
    /\ calls = 2
    /\ seq > 0

====
